---- MODULE Spec2Model ----
(***************************************************************************)
(* SmartSwitch.turn_off_when_idle and the methods it calls                 *)
(* (fritzbox_exploration_01--turn_off_when_idle.ipynb).                    *)
(*                                                                         *)
(* Units.  Power is kept in 0.01 W, the unit of power_stats['data'][0];    *)
(* latencies and latency tolerances in 0.01 s; offset, lower_bound,        *)
(* increment and base_time in 1/Sec s, where Sec is a power of two large   *)
(* enough for every halving the bounded runs can make to be exact (the     *)
(* Python floats 1/4, 1/8, ... are exact dyadic numbers as well).          *)
(***************************************************************************)
EXTENDS Integers, FiniteSets

\* ---------------------------------------------------------------- bounds
MaxCalls == 2
MaxFetches == 3
MaxPolls == 3
MaxRecordTime == 2
MaxConvPolls == 16
MaxLoopPolls == 4
\* the clock of the scheduler stops advancing on its own at MaxClock seconds
MaxClock == 25
\* requests one call of get_reliable_power_record makes at most
MaxBootFetches == 6
\* polls of a detection loop that sees no anomalous record
MaxBandPolls == 6

\* ------------------------------------------------------ program constants
\* turn_off_when_idle, fast path: allowed_latency=0.5
FastPathLatency == 50
\* 9 < latency < 12.5
TooEarlyLow == 900
TooEarlyHigh == 1250
\* 0 < latency < 2.5
AcceptableHigh == 250
\* lower_bound = -1
LowerBoundSentinel == -1
\* increment = 1/4
IncrementDivisor == 4
\* def get_next_power_record(self, base_time, cycle=10)
cycle == 10

RECURSIVE Pow(_, _)
Pow(b, n) == IF n <= 0 THEN 1 ELSE b * Pow(b, n - 1)

HalvingBound == IF MaxPolls > MaxConvPolls THEN MaxPolls ELSE MaxConvPolls
Sec == IncrementDivisor * Pow(2, HalvingBound)

\* ------------------------------------------------------- input domains
\* power readings in 0.01 W (2.93 W, 5 W, 427.36 W)
Powers == {293, 500, 42736}
\* latencies in 0.01 s, around every threshold the code compares with
Latencies == {-20, 0, 40, 50, 95, 100, 250, 600, 900, 1082, 1250}
\* device timestamps, whole seconds
RecordTimes == 0..MaxRecordTime
\* idle_threshold of the SmartSwitch instance, in 0.01 W (default 5 W)
IdleThresholds == {300, 500}
\* allowed_latency arguments in 0.01 s (default 1 s)
AllowedLatencies == {30, 100}
\* cycle_detection_precision arguments
Precisions == {0, 1}

Records == [power : Powers, record_time : RecordTimes, latency : Latencies]
NoRecord == [power |-> 0, record_time |-> 0, latency |-> 0]
\* what one get_basic_device_stats request can come back with: a record, or
\* an exception raised by the transport
Answers == [ok : {TRUE}, rec : Records] \cup [ok : {FALSE}, rec : {NoRecord}]

VARIABLES
    pc,               \* position of the running turn_off_when_idle call
    switchState,      \* the device's switch (True = on)
    device_time,      \* the device's current power_stats['datatime']
    idle_threshold,   \* self.idle_threshold
    allowed_latency,  \* argument of the running call
    precision,        \* cycle_detection_precision of the running call
    switch_is_on,     \* local switch_is_on
    power_record,     \* local power_record
    init_time,        \* get_reliable_power_record: init_time
    base_time,        \* local base_time
    offset,           \* local offset
    lower_bound,      \* local lower_bound
    increment,        \* local increment
    precision_is_low, \* local precision_is_low
    calls,            \* history: calls of turn_off_when_idle so far
    fetches,          \* history: get_basic_device_stats requests of this call
    waits,            \* history: time.sleep(interval) calls of this call
    polls,            \* history: get_next_power_record calls of this call
    cmds,             \* history: set_switch(False) requests of this call
    failures,         \* history: remote calls of this call that raised
    state_at_start,   \* history: what get_switch_state reported
    prev_time,        \* history: record time of the fetch before the last
    changed_at,       \* history: first fetch whose record time differed
    fast_off,         \* history: the fast-path check issued the command
    theta,            \* environment: phase boundary of the device's cycle
    now,              \* environment: datetime.datetime.now()
    exec_time,        \* get_next_power_record: exec_time
    sleep_time        \* get_next_power_record: sleep_time

vars == <<pc, switchState, device_time, idle_threshold, allowed_latency,
          precision, switch_is_on, power_record, init_time, base_time,
          offset, lower_bound, increment, precision_is_low, calls, fetches,
          waits, polls, cmds, failures, state_at_start, prev_time,
          changed_at, fast_off, theta, now, exec_time, sleep_time>>

\* the clock and the locals of get_next_power_record, whose waiting is part of
\* LoopPollGiven everywhere but in the specification of the scheduler
clock == <<now, exec_time, sleep_time>>
sync == <<base_time, offset, lower_bound, increment, precision_is_low>>
params == <<idle_threshold, allowed_latency, precision, theta>>

\* ------------------------------------------------------------ helpers
Max(a, b) == IF a >= b THEN a ELSE b

\* A remote call that raises ends the call: no try/except surrounds
\* get_switch_state, get_basic_device_stats or set_switch.
AfterRemoteCallRetry(ok, next) == next
AfterRemoteCall(ok, next) == IF ok THEN next ELSE "error"

\* turn_off_if_idle: device_idle
device_idle(rec, threshold) == rec.power < threshold

\* turn_off_if_idle: latency_ok
latency_okNoLowerGuard(rec, allowed) == rec.latency < allowed
latency_okInclusive(rec, allowed) == 0 < rec.latency /\ rec.latency <= allowed
latency_ok(rec, allowed) == 0 < rec.latency /\ rec.latency < allowed

\* turn_off_if_idle: the condition under which set_switch(False) is called
GateFiresIgnoringLatency(rec, threshold, allowed) ==
    device_idle(rec, threshold)
GateFires(rec, threshold, allowed) ==
    device_idle(rec, threshold) /\ latency_ok(rec, allowed)

\* turn_off_if_idle: the value returned (the final switch state)
GateReturnInverted(fires) == fires
GateReturn(fires) == ~fires

\* turn_off_when_idle: "if not switch_is_on: return"
AlreadyOffNever(reported) == FALSE
AlreadyOff(reported) == ~reported

\* get_reliable_power_record: "while next_time == init_time"
BootMustWaitNever(next_time, first_time) == FALSE
BootMustWait(next_time, first_time) == next_time = first_time

\* turn_off_when_idle: "while switch_is_on"
LoopContinuesAlways(on) == TRUE
LoopContinues(on) == on

\* precision_is_low = increment > 10**(-cycle_detection_precision)
ExceedsFloorNever(inc, p) == FALSE
ExceedsFloor(inc, p) ==
    IF p >= 0 THEN inc * Pow(10, p) > Sec ELSE inc > Sec * Pow(10, -p)

\* The three latency bands of the detection loop
TooEarly(latency) == TooEarlyLow < latency /\ latency < TooEarlyHigh
AcceptableInclusive(latency) == 0 < latency /\ latency <= AcceptableHigh
Acceptable(latency) == 0 < latency /\ latency < AcceptableHigh

\* lower_bound after one iteration
NewLowerBoundAssign(latency, off, lb) ==
    IF TooEarly(latency) THEN off ELSE lb
NewLowerBound(latency, off, lb) ==
    IF TooEarly(latency) THEN Max(off, lb) ELSE lb

\* increment after one iteration
NewIncrementNoHalving(latency, off, lb, inc, low) == inc
NewIncrementResetOnAnomaly(latency, off, lb, inc, low) ==
    IF TooEarly(latency) THEN inc
    ELSE IF Acceptable(latency)
         THEN (IF low /\ off - inc = lb THEN inc \div 2 ELSE inc)
         ELSE Sec \div IncrementDivisor
NewIncrement(latency, off, lb, inc, low) ==
    IF ~TooEarly(latency) /\ Acceptable(latency) /\ low /\ off - inc = lb
    THEN inc \div 2
    ELSE inc

\* offset after one iteration
NewOffsetEarlyStepsBack(latency, off, lb, inc, low) ==
    IF TooEarly(latency) THEN off - inc
    ELSE IF Acceptable(latency)
         THEN off - NewIncrement(latency, off, lb, inc, low)
         ELSE 0
NewOffsetKeptOnAnomaly(latency, off, lb, inc, low) ==
    IF TooEarly(latency) THEN off + inc
    ELSE IF Acceptable(latency)
         THEN off - NewIncrement(latency, off, lb, inc, low)
         ELSE off
NewOffset(latency, off, lb, inc, low) ==
    IF TooEarly(latency) THEN off + inc
    ELSE IF Acceptable(latency)
         THEN off - NewIncrement(latency, off, lb, inc, low)
         ELSE 0

\* nudge_timestamp(timestamp, seconds)
nudge_timestampIgnoresSeconds(timestamp, seconds) == timestamp * Sec
nudge_timestamp(timestamp, seconds) == timestamp * Sec + seconds

\* ---------------------------------------------------------------- Init
Init ==
    /\ pc = "idle"
    /\ switchState \in BOOLEAN
    /\ device_time = 0
    /\ idle_threshold \in IdleThresholds
    /\ allowed_latency = 100
    /\ precision = 2
    /\ switch_is_on = FALSE
    /\ power_record = NoRecord
    /\ init_time = 0
    /\ base_time = 0
    /\ offset = 0
    /\ lower_bound = 0
    /\ increment = 0
    /\ precision_is_low = FALSE
    /\ calls = 0
    /\ fetches = 0
    /\ waits = 0
    /\ polls = 0
    /\ cmds = 0
    /\ failures = 0
    /\ state_at_start = "unknown"
    /\ prev_time = 0
    /\ changed_at = 0
    /\ fast_off = FALSE
    /\ theta = 0
    /\ now = 0
    /\ exec_time = 0
    /\ sleep_time = 0

\* ------------------------------------------------------------- actions
NoRun == pc \in {"idle", "done", "error"}

\* test_run.turn_off_when_idle(allowed_latency=al, cycle_detection_precision=p):
\* a new call starts with fresh locals.
Call(al, p) ==
    /\ NoRun
    /\ calls < MaxCalls
    /\ pc' = "get_state"
    /\ calls' = calls + 1
    /\ allowed_latency' = al
    /\ precision' = p
    /\ switch_is_on' = FALSE
    /\ power_record' = NoRecord
    /\ init_time' = 0
    /\ base_time' = 0
    /\ offset' = 0
    /\ lower_bound' = 0
    /\ increment' = 0
    /\ precision_is_low' = FALSE
    /\ fetches' = 0
    /\ waits' = 0
    /\ polls' = 0
    /\ cmds' = 0
    /\ failures' = 0
    /\ state_at_start' = "unknown"
    /\ prev_time' = 0
    /\ changed_at' = 0
    /\ fast_off' = FALSE
    /\ UNCHANGED <<switchState, device_time, idle_threshold, theta>>

\* set_switch(True), by the user between two runs
SetSwitchOn ==
    /\ NoRun
    /\ ~switchState
    /\ switchState' = TRUE
    /\ UNCHANGED <<pc, device_time, idle_threshold, allowed_latency, precision,
                   switch_is_on, power_record, init_time, sync, calls, fetches,
                   waits, polls, cmds, failures, state_at_start, prev_time,
                   changed_at, fast_off, theta>>

\* switch_is_on = self.get_switch_state(); if not switch_is_on: return
GetSwitchState(ok) ==
    /\ pc = "get_state"
    /\ failures' = IF ok THEN failures ELSE failures + 1
    /\ IF ok
       THEN /\ switch_is_on' = switchState
            /\ state_at_start' = IF switchState THEN "on" ELSE "off"
            /\ pc' = IF AlreadyOff(switchState) THEN "done" ELSE "boot_first"
       ELSE /\ pc' = AfterRemoteCall(ok, "boot_first")
            /\ UNCHANGED <<switch_is_on, state_at_start>>
    /\ UNCHANGED <<switchState, device_time, params, power_record, init_time,
                   sync, calls, fetches, waits, polls, cmds, prev_time,
                   changed_at, fast_off>>

\* The effect of one get_latest_power_record() on the record, the device's
\* timestamp and the histories; rec is what the device answers when ok.
Fetched(rec, ok) ==
    /\ ok => rec.record_time >= device_time
    /\ fetches' = fetches + 1
    /\ failures' = IF ok THEN failures ELSE failures + 1
    /\ IF ok
       THEN /\ power_record' = rec
            /\ device_time' = rec.record_time
            /\ prev_time' = power_record.record_time
            /\ changed_at' = IF /\ changed_at = 0
                                /\ fetches >= 1
                                /\ rec.record_time # power_record.record_time
                             THEN fetches + 1
                             ELSE changed_at
       ELSE UNCHANGED <<power_record, device_time, prev_time, changed_at>>

\* get_reliable_power_record: first request, init_time
BootFirst(rec, ok) ==
    /\ pc = "boot_first"
    /\ Fetched(rec, ok)
    /\ pc' = AfterRemoteCall(ok, "boot_second")
    /\ init_time' = IF ok THEN rec.record_time ELSE init_time
    /\ UNCHANGED <<switchState, params, switch_is_on, sync, calls, waits,
                   polls, cmds, state_at_start, fast_off>>

\* get_reliable_power_record: "do the same once more right away"
BootSecond(rec, ok) ==
    /\ pc = "boot_second"
    /\ Fetched(rec, ok)
    /\ pc' = AfterRemoteCall(ok, "boot_test")
    /\ UNCHANGED <<switchState, params, switch_is_on, init_time, sync, calls,
                   waits, polls, cmds, state_at_start, fast_off>>

\* get_reliable_power_record: loop test true, time.sleep(interval)
BootWaitSkipped ==
    /\ pc = "boot_test"
    /\ BootMustWait(power_record.record_time, init_time)
    /\ fetches < MaxFetches
    /\ pc' = "boot_fetch"
    /\ UNCHANGED <<switchState, device_time, params, switch_is_on,
                   power_record, init_time, sync, calls, fetches, waits, polls,
                   cmds, failures, state_at_start, prev_time, changed_at,
                   fast_off>>
BootWait ==
    /\ pc = "boot_test"
    /\ BootMustWait(power_record.record_time, init_time)
    /\ fetches < MaxFetches
    /\ waits' = waits + 1
    /\ pc' = "boot_fetch"
    /\ UNCHANGED <<switchState, device_time, params, switch_is_on,
                   power_record, init_time, sync, calls, fetches, polls, cmds,
                   failures, state_at_start, prev_time, changed_at, fast_off>>

\* get_reliable_power_record: the request inside the loop
BootRefetch(rec, ok) ==
    /\ pc = "boot_fetch"
    /\ Fetched(rec, ok)
    /\ pc' = AfterRemoteCall(ok, "boot_test")
    /\ UNCHANGED <<switchState, params, switch_is_on, init_time, sync, calls,
                   waits, polls, cmds, state_at_start, fast_off>>

\* get_reliable_power_record: loop test false, return power_record
BootReturnOnTimeout ==
    /\ pc = "boot_test"
    /\ ~BootMustWait(power_record.record_time, init_time) \/ waits >= 2
    /\ pc' = "fast_path"
    /\ init_time' = 0
    /\ UNCHANGED <<switchState, device_time, params, switch_is_on,
                   power_record, sync, calls, fetches, waits, polls,
                   cmds, failures, state_at_start, prev_time, changed_at,
                   fast_off>>
BootReturn ==
    /\ pc = "boot_test"
    /\ ~BootMustWait(power_record.record_time, init_time)
    /\ pc' = "fast_path"
    /\ init_time' = 0
    /\ UNCHANGED <<switchState, device_time, params, switch_is_on,
                   power_record, sync, calls, fetches, waits, polls,
                   cmds, failures, state_at_start, prev_time, changed_at,
                   fast_off>>

\* turn_off_if_idle(power_record, allowed): what one call does to the switch,
\* to switch_is_on (the caller assigns the returned value) and to the
\* histories; ok is whether set_switch(False), if called, succeeds.
Gate(allowed, ok) ==
    LET fires == GateFires(power_record, idle_threshold, allowed) IN
    /\ cmds' = IF fires THEN cmds + 1 ELSE cmds
    /\ failures' = IF fires /\ ~ok THEN failures + 1 ELSE failures
    /\ switchState' = IF fires /\ ok THEN FALSE ELSE switchState
    /\ switch_is_on' = IF fires /\ ~ok THEN switch_is_on ELSE GateReturn(fires)

\* switch_is_on = self.turn_off_if_idle(power_record, allowed_latency=0.5),
\* then the initialisation of the detection loop
FastPathKeepsSync(ok) ==
    LET fires == GateFires(power_record, idle_threshold, FastPathLatency) IN
    /\ pc = "fast_path"
    /\ Gate(FastPathLatency, ok)
    /\ fast_off' = fires
    /\ pc' = IF fires /\ ~ok THEN AfterRemoteCall(ok, "loop_test")
             ELSE "loop_test"
    /\ UNCHANGED sync
    /\ UNCHANGED <<device_time, params, power_record, init_time, calls,
                   fetches, waits, polls, state_at_start, prev_time, changed_at>>
FastPath(ok) ==
    LET fires == GateFires(power_record, idle_threshold, FastPathLatency) IN
    /\ pc = "fast_path"
    /\ Gate(FastPathLatency, ok)
    /\ fast_off' = fires
    /\ IF fires /\ ~ok
       THEN /\ pc' = AfterRemoteCall(ok, "loop_test")
            /\ UNCHANGED sync
       ELSE /\ pc' = "loop_test"
            /\ base_time' = nudge_timestamp(power_record.record_time, 0)
            /\ offset' = 0
            /\ lower_bound' = LowerBoundSentinel * Sec
            /\ increment' = Sec \div IncrementDivisor
            /\ precision_is_low' =
                   ExceedsFloor(Sec \div IncrementDivisor, precision)
    /\ UNCHANGED <<device_time, params, power_record, init_time, calls,
                   fetches, waits, polls, state_at_start, prev_time, changed_at>>

\* "while switch_is_on" false: turn_off_when_idle returns
LoopExit ==
    /\ pc = "loop_test"
    /\ ~LoopContinues(switch_is_on)
    /\ pc' = "done"
    /\ UNCHANGED <<switchState, device_time, params, switch_is_on,
                   power_record, init_time, sync, calls, fetches, waits, polls,
                   cmds, failures, state_at_start, prev_time, changed_at,
                   fast_off>>

\* "while switch_is_on" true: power_record = self.get_next_power_record(base_time)
\* (the wait until the next instant of the cycle, then one request)
LoopPollGiven(rec, ok) ==
    /\ pc = "loop_test"
    /\ LoopContinues(switch_is_on)
    /\ Fetched(rec, ok)
    /\ polls' = polls + 1
    /\ pc' = AfterRemoteCall(ok, "loop_gate")
    /\ UNCHANGED <<switchState, params, switch_is_on, init_time, sync, calls,
                   waits, cmds, state_at_start, fast_off>>

LoopPoll(rec, ok) ==
    /\ polls < MaxPolls
    /\ LoopPollGiven(rec, ok)

\* the rest of the iteration: turn_off_if_idle(power_record, allowed_latency),
\* the update of offset, lower_bound and increment, and the new base_time
LoopGateAdjust(ok) ==
    LET fires == GateFires(power_record, idle_threshold, allowed_latency)
        latency == power_record.latency
        off == NewOffset(latency, offset, lower_bound, increment,
                         precision_is_low)
    IN
    /\ pc = "loop_gate"
    /\ Gate(allowed_latency, ok)
    /\ IF fires /\ ~ok
       THEN /\ pc' = AfterRemoteCall(ok, "loop_test")
            /\ UNCHANGED sync
       ELSE /\ pc' = "loop_test"
            /\ lower_bound' = NewLowerBound(latency, offset, lower_bound)
            /\ increment' = NewIncrement(latency, offset, lower_bound,
                                         increment, precision_is_low)
            /\ offset' = off
            /\ base_time' = nudge_timestamp(power_record.record_time, off)
            /\ UNCHANGED precision_is_low
    /\ UNCHANGED <<device_time, params, power_record, init_time, calls,
                   fetches, waits, polls, state_at_start, prev_time, changed_at,
                   fast_off>>

Next ==
    \/ \E al \in AllowedLatencies, p \in Precisions :
          Call(al, p) /\ UNCHANGED clock
    \/ SetSwitchOn /\ UNCHANGED clock
    \/ \E ok \in BOOLEAN : GetSwitchState(ok) /\ UNCHANGED clock
    \/ \E a \in Answers : BootFirst(a.rec, a.ok) /\ UNCHANGED clock
    \/ \E a \in Answers : BootSecond(a.rec, a.ok) /\ UNCHANGED clock
    \/ BootWait /\ UNCHANGED clock
    \/ \E a \in Answers : BootRefetch(a.rec, a.ok) /\ UNCHANGED clock
    \/ BootReturn /\ UNCHANGED clock
    \/ \E ok \in BOOLEAN : FastPath(ok) /\ UNCHANGED clock
    \/ LoopExit /\ UNCHANGED clock
    \/ \E a \in Answers : LoopPoll(a.rec, a.ok) /\ UNCHANGED clock
    \/ \E ok \in BOOLEAN : LoopGateAdjust(ok) /\ UNCHANGED clock

Spec == Init /\ [][Next]_vars

\* ---------------------------------------------------------------- claims
\* The tolerance of the turn_off_if_idle call that the next step makes, and
\* the condition "value < idleThreshold and 0 < latency < allowedLatency" on
\* the record that call is given.
AtGate == pc \in {"fast_path", "loop_gate"}
GateAllowed == IF pc = "fast_path" THEN FastPathLatency ELSE allowed_latency
GateCondition ==
    /\ power_record.power < idle_threshold
    /\ 0 < power_record.latency
    /\ power_record.latency < GateAllowed

\* C1 as stated: turn_off_if_idle issues the off command and returns true
\* exactly when value < idleThreshold and 0 < latency < allowedLatency, and
\* otherwise returns false and issues no command.
C1_ReturnsTrueIffOff ==
    [][AtGate =>
          /\ (cmds' = cmds + 1) <=> GateCondition
          /\ (cmds' = cmds) <=> ~GateCondition
          /\ pc' # "error" => (switch_is_on' <=> GateCondition)]_vars

\* C1 as amended: turn_off_if_idle issues the off command exactly when
\* value < idleThreshold and 0 < latency < allowedLatency, and the value it
\* returns is the final switch state: False when it issued the command, True
\* when it issued none.
C1_GateDecision ==
    [][AtGate =>
          /\ (cmds' = cmds + 1) <=> GateCondition
          /\ (cmds' = cmds) <=> ~GateCondition
          /\ pc' # "error" => (switch_is_on' <=> ~GateCondition)]_vars

C1_Witness ==
    /\ pc = "loop_test"
    /\ cmds = 1
    /\ ~switch_is_on
    /\ ~switchState
    /\ power_record.latency = 95
    /\ allowed_latency = 100

\* C2: the off command is issued only on a record whose power is below the
\* idle threshold and whose latency is below the caller's allowed_latency,
\* on the fast path and in the loop alike.
C2_WithinCallerLatency ==
    cmds >= 1 =>
        /\ power_record.power < idle_threshold
        /\ power_record.latency < allowed_latency

\* C3: no step issues the off command on a record whose latency is <= 0.
C3_NoOffOnInvalidLatency ==
    [][cmds' > cmds => power_record.latency > 0]_vars

C3_Witness ==
    /\ pc = "loop_test"
    /\ polls >= 1
    /\ power_record.latency <= 0
    /\ power_record.power < idle_threshold
    /\ cmds = 0
    /\ switch_is_on

\* C4: the call returns only if the switch was reported off at the start or
\* an off command was issued; while no command has been issued the loop test
\* sends the run to the next poll.
C4_ReturnsOnlyWhenOff ==
    /\ pc = "done" => (state_at_start = "off" \/ cmds >= 1)
    /\ (pc = "loop_test" /\ cmds = 0) =>
           (switch_is_on /\ ~ENABLED LoopExit)

C4_Witness ==
    /\ pc = "loop_test"
    /\ polls >= 3
    /\ cmds = 0
    /\ failures = 0

\* C5: at most one off command is issued per call; once it is issued the run
\* makes no further request, command or wait and can only leave the loop
\* and return; a fast path that issued it is followed by zero polls.
C5_OffEndsTheRun ==
    [][/\ cmds' <= 1
       /\ fast_off' => polls' = 0
       /\ cmds' >= 1 =>
              \/ pc' \in {"done", "error"}
              \/ pc' = "loop_test" /\ ~switch_is_on'
       /\ (cmds >= 1 /\ pc' # "get_state") =>
              /\ fetches' = fetches
              /\ cmds' = cmds
              /\ polls' = polls
              /\ waits' = waits
              /\ pc' \in {"done", "error"}]_vars

C5_Witness ==
    /\ pc = "done"
    /\ cmds = 1
    /\ polls = 2
    /\ fetches = 4
    /\ ~fast_off

\* C6: when get_switch_state reports off at the start, the call has returned
\* without any request for a record, any wait and any command; so has every
\* later call made in that state.
C6_AlreadyOffIsNoOp ==
    state_at_start = "off" =>
        /\ pc = "done"
        /\ fetches = 0
        /\ waits = 0
        /\ polls = 0
        /\ cmds = 0

C6_Witness ==
    /\ calls = 2
    /\ state_at_start = "off"
    /\ pc = "done"
    /\ ~switchState

\* C7: when get_reliable_power_record returns, some fetched record time has
\* differed from the one before it, and the returned record's time differs
\* from that of the fetch immediately preceding it.
C7_ReturnsOnChange ==
    pc = "fast_path" =>
        /\ changed_at # 0
        /\ power_record.record_time # prev_time

C7_Witness ==
    /\ pc = "fast_path"
    /\ fetches = 3
    /\ prev_time = 0
    /\ power_record.record_time = 2

\* C8: get_reliable_power_record makes its second request with no wait
\* after the first, exactly one wait before each later request, and returns
\* at the first request whose record time differs from the one before it.
C8_FetchesAndWaits ==
    /\ pc = "boot_second" => (fetches = 1 /\ waits = 0)
    /\ pc = "boot_test" => (fetches >= 2 /\ waits = fetches - 2)
    /\ pc = "boot_fetch" => (fetches >= 2 /\ waits = fetches - 1)
    /\ pc = "fast_path" =>
           /\ fetches >= 2
           /\ waits = fetches - 2
           /\ changed_at = fetches

C8_Witness ==
    /\ pc = "fast_path"
    /\ fetches = 3
    /\ waits = 1
    /\ changed_at = 3

\* C9: a remote call that fails puts the run at once in the error outcome,
\* which is not the normal completion; after it nothing is retried and no
\* request and no command follows.
C9_TransportErrorEndsRun ==
    [][/\ (failures' > 0) <=> (pc' = "error")
       /\ failures' <= 1
       /\ (failures' > failures /\ failures = 0) => pc' = "error"
       /\ (pc = "error" /\ pc' # "get_state") =>
              /\ pc' = "error"
              /\ fetches' = fetches
              /\ cmds' = cmds
              /\ waits' = waits
              /\ polls' = polls]_vars

C9_Witness ==
    /\ pc = "error"
    /\ failures = 1
    /\ polls = 2
    /\ cmds = 0

\* ------------------------------------------------ a device with a fixed phase
\* A run against a device whose measuring cycle has a fixed phase: a request
\* scheduled with an offset below theta is answered with the record of the
\* cycle before (latency in the too-early band), any other with a fresh one
\* (latency in the acceptable band); the appliance never idles and no
\* request fails.
ConvPrecisions == {0, 1, 2}
Thetas ==
    {k * (Sec \div 8) + d : k \in -7..8, d \in {0, 1, (Sec \div 16) + 3}}

PhaseAnswer(rec) ==
    /\ ~device_idle(rec, idle_threshold)
    /\ rec.record_time = device_time
    /\ IF offset < theta THEN TooEarly(rec.latency) ELSE Acceptable(rec.latency)

InitConv ==
    /\ pc = "fast_path"
    /\ switchState = TRUE
    /\ device_time = 1
    /\ idle_threshold = 500
    /\ allowed_latency = 100
    /\ precision \in ConvPrecisions
    /\ switch_is_on = TRUE
    /\ power_record = [power |-> 42736, record_time |-> 1, latency |-> 95]
    /\ init_time = 0
    /\ base_time = 0
    /\ offset = 0
    /\ lower_bound = 0
    /\ increment = 0
    /\ precision_is_low = FALSE
    /\ calls = 1
    /\ fetches = 2
    /\ waits = 0
    /\ polls = 0
    /\ cmds = 0
    /\ failures = 0
    /\ state_at_start = "on"
    /\ prev_time = 0
    /\ changed_at = 2
    /\ fast_off = FALSE
    /\ theta \in {t \in Thetas : t > LowerBoundSentinel * Sec}
    /\ now = 0
    /\ exec_time = 0
    /\ sleep_time = 0

ConvPoll(rec) ==
    /\ polls < MaxConvPolls
    /\ PhaseAnswer(rec)
    /\ LoopPollGiven(rec, TRUE)

NextConv ==
    \/ FastPath(TRUE) /\ UNCHANGED clock
    \/ \E rec \in Records : ConvPoll(rec) /\ UNCHANGED clock
    \/ LoopGateAdjust(TRUE) /\ UNCHANGED clock

SpecConv == InitConv /\ [][NextConv]_vars /\ WF_vars(NextConv)

\* |offset - theta| <= 10**(-precision)
Abs(x) == IF x >= 0 THEN x ELSE -x
WithinPrecision ==
    IF precision >= 0
    THEN Abs(offset - theta) * Pow(10, precision) <= Sec
    ELSE Abs(offset - theta) <= Sec * Pow(10, -precision)

\* C10: against a device with a fixed phase boundary theta > -1, lower_bound
\* stays below theta throughout the detection loop, and from some point on
\* offset stays within 10**(-precision) of theta.
C10_Convergence ==
    /\ [](pc # "fast_path" => lower_bound < theta)
    /\ <>[](pc # "fast_path" /\ WithinPrecision)

C10_Witness ==
    /\ pc = "loop_test"
    /\ precision = 2
    /\ polls = 13
    /\ lower_bound > LowerBoundSentinel * Sec
    /\ offset # theta
    /\ increment * 100 < Sec
    /\ WithinPrecision

\* ------------------------------------------------------ the detection loop
\* The detection loop alone, entered after a bootstrap that returned a
\* non-idle record: every poll may be answered with any power and any
\* latency, so that the three bands follow each other in every order.
LoopAllowedLatencies == {100, 700}

InitLoop ==
    /\ pc = "fast_path"
    /\ switchState = TRUE
    /\ device_time = 1
    /\ idle_threshold = 500
    /\ allowed_latency \in LoopAllowedLatencies
    /\ precision \in Precisions
    /\ switch_is_on = TRUE
    /\ power_record = [power |-> 42736, record_time |-> 1, latency |-> 95]
    /\ init_time = 0
    /\ base_time = 0
    /\ offset = 0
    /\ lower_bound = 0
    /\ increment = 0
    /\ precision_is_low = FALSE
    /\ calls = 1
    /\ fetches = 2
    /\ waits = 0
    /\ polls = 0
    /\ cmds = 0
    /\ failures = 0
    /\ state_at_start = "on"
    /\ prev_time = 0
    /\ changed_at = 2
    /\ fast_off = FALSE
    /\ theta = 0
    /\ now = 0
    /\ exec_time = 0
    /\ sleep_time = 0

FreePoll(rec) ==
    /\ polls < MaxLoopPolls
    /\ rec.record_time = device_time
    /\ LoopPollGiven(rec, TRUE)

NextLoop ==
    \/ FastPath(TRUE) /\ UNCHANGED clock
    \/ \E rec \in Records : FreePoll(rec) /\ UNCHANGED clock
    \/ \E ok \in BOOLEAN : LoopGateAdjust(ok) /\ UNCHANGED clock
    \/ LoopExit /\ UNCHANGED clock

SpecLoop == InitLoop /\ [][NextLoop]_vars

InLoop == pc \in {"loop_test", "loop_gate"}
\* the step is a completed band update of the detection loop
BandUpdate == pc = "loop_gate" /\ pc' = "loop_test"

\* C11: in every state of the detection loop increment is at least
\* 10**(-precision).
C11_IncrementAtLeastFloor ==
    InLoop =>
        IF precision >= 0
        THEN increment * Pow(10, precision) >= Sec
        ELSE increment >= Sec * Pow(10, -precision)

\* C12: increment is halved only in an iteration in which, before the update,
\* offset - increment = lower_bound and the current increment exceeds
\* 10**(-precision).
C12_HalvingOnlyAboveFloor ==
    [][(BandUpdate /\ increment' # increment) =>
          /\ offset - increment = lower_bound
          /\ IF precision >= 0
             THEN increment * Pow(10, precision) > Sec
             ELSE increment > Sec * Pow(10, -precision)]_vars

\* C13: lower_bound never decreases during the detection loop, and once it
\* is above the sentinel -1 it stays above it.
C13_LowerBoundMonotone ==
    [][(InLoop /\ InLoop') =>
          /\ lower_bound' >= lower_bound
          /\ lower_bound > LowerBoundSentinel * Sec =>
                 lower_bound' > LowerBoundSentinel * Sec]_vars

C13_Witness ==
    /\ pc = "loop_test"
    /\ polls = 4
    /\ lower_bound = Sec \div 4
    /\ offset = Sec \div 4
    /\ power_record.latency = 1082

\* C14: increment never increases from one state of the detection loop to
\* the next, so after a halving it never again exceeds its earlier value,
\* whatever band the later records fall in.
C14_IncrementNonIncreasing ==
    [][(InLoop /\ InLoop') =>
          /\ increment' <= increment
          /\ increment' > 0]_vars

C14_Witness ==
    /\ pc = "loop_test"
    /\ increment = Sec \div 8
    /\ power_record.latency = 600
    /\ offset = 0
    /\ lower_bound = 0

\* C15: a record with 9 < latency < 12.5 makes lower_bound the larger of
\* lower_bound and the offset before the update, raises offset by exactly
\* the current increment and leaves increment unchanged.
C15_TooEarlyUpdate ==
    [][(/\ BandUpdate
        /\ 900 < power_record.latency
        /\ power_record.latency < 1250) =>
          /\ lower_bound' = (IF offset > lower_bound THEN offset ELSE lower_bound)
          /\ offset' = offset + increment
          /\ increment' = increment]_vars

C15_Witness ==
    /\ pc = "loop_test"
    /\ power_record.latency = 1082
    /\ polls = 3
    /\ lower_bound = Sec \div 8
    /\ offset = Sec \div 4
    /\ increment = Sec \div 8

\* C17: in every state of the detection loop offset >= lower_bound.
C17_OffsetAtLeastLowerBound ==
    InLoop => offset >= lower_bound

\* C18: a record with 0 < latency < 2.5 halves increment exactly when,
\* before the update, the current increment exceeds 10**(-precision) and
\* offset - increment = lower_bound; offset then decreases by the resulting
\* increment and lower_bound is unchanged.
C18_AcceptableUpdate ==
    [][(/\ BandUpdate
        /\ 0 < power_record.latency
        /\ power_record.latency < 250) =>
          LET above == IF precision >= 0
                       THEN increment * Pow(10, precision) > Sec
                       ELSE increment > Sec * Pow(10, -precision)
              halve == above /\ offset - increment = lower_bound
          IN /\ increment' = (IF halve THEN increment \div 2 ELSE increment)
             /\ offset' = offset - increment'
             /\ lower_bound' = lower_bound]_vars

\* C19: every loop record is treated as exactly one band: too-early when
\* 9 < latency < 12.5, acceptable when 0 < latency < 2.5, anomalous in every
\* other case (latency <= 0, 2.5 <= latency <= 9, latency >= 12.5).
C19_Bands ==
    [][BandUpdate =>
          LET l == power_record.latency IN
          /\ (900 < l /\ l < 1250) =>
                 /\ offset' = offset + increment
                 /\ increment' = increment
          /\ (0 < l /\ l < 250) =>
                 /\ offset' = offset - increment'
                 /\ lower_bound' = lower_bound
          /\ (l <= 0 \/ (250 <= l /\ l <= 900) \/ l >= 1250) =>
                 /\ offset' = 0
                 /\ lower_bound' = lower_bound
                 /\ increment' = increment]_vars

C19_Witness ==
    /\ pc = "loop_test"
    /\ power_record.latency = 250
    /\ polls = 2
    /\ offset = 0
    /\ lower_bound = 0
    /\ increment = Sec \div 4

\* the record of the update is in none of the two bands 9 < latency < 12.5
\* and 0 < latency < 2.5, and no remote call of the step raised
AnomalousUpdate ==
    /\ pc = "loop_gate"
    /\ failures' = failures
    /\ ~(900 < power_record.latency /\ power_record.latency < 1250)
    /\ ~(0 < power_record.latency /\ power_record.latency < 250)

\* C20 as stated: an anomalous-band record sets offset to 0, leaves
\* lower_bound and increment unchanged, and the loop goes on to the next
\* poll.
C20_AnomalousGoesOn ==
    [][AnomalousUpdate =>
          /\ offset' = 0
          /\ lower_bound' = lower_bound
          /\ increment' = increment
          /\ pc' = "loop_test"
          /\ switch_is_on']_vars

\* C20 as amended: an anomalous-band record sets offset to 0 and leaves
\* lower_bound and increment unchanged; the loop goes on to the next poll
\* unless turn_off_if_idle issued the off command on that record (power below
\* the idle threshold and 2.5 <= latency < allowed_latency).
C20_AnomalousReset ==
    [][AnomalousUpdate =>
          /\ offset' = 0
          /\ lower_bound' = lower_bound
          /\ increment' = increment
          /\ pc' = "loop_test"
          /\ switch_is_on' <=>
                 ~(/\ power_record.power < idle_threshold
                   /\ 250 <= power_record.latency
                   /\ power_record.latency < allowed_latency)
          /\ switch_is_on' <=> (cmds' = cmds)]_vars

C20_Witness ==
    /\ pc = "loop_test"
    /\ power_record.latency = 600
    /\ power_record.power = 293
    /\ allowed_latency = 100
    /\ polls = 3
    /\ offset = 0
    /\ lower_bound = Sec \div 4
    /\ switch_is_on
    /\ cmds = 0

\* ------------------------------------------------------- the documented run
\* The run recorded in the notebook: the device answers with the records of
\* the printed output, whatever the parameters of the call are. Times are the
\* seconds of 16:12.
DocAllowedLatencies == {50, 100, 200}
DocPrecisions == {0, 3}

\* the record of 16:12:05, still the device's latest when the run starts
DocStaleRecord == [power |-> 42736, record_time |-> 5, latency |-> 1100]
\* "Power: 427.36 W  Latency: 1.42 s  Record Time: 16:12:15"
DocBootRecord == [power |-> 42736, record_time |-> 15, latency |-> 142]
DocBootRecords == {DocStaleRecord, DocBootRecord}

\* the k-th record of the main loop; the device stays idle after the third
DocLoopRecord(k) ==
    CASE k = 1 -> [power |-> 42736, record_time |-> 15, latency |-> 1082]
      [] k = 2 -> [power |-> 293, record_time |-> 35, latency |-> 106]
      [] OTHER -> [power |-> 307, record_time |-> 10 * k + 15, latency |-> 95]

\* the switch is on and turn_off_when_idle has not been called yet
InitDoc ==
    /\ Init
    /\ switchState = TRUE

\* test_run.turn_off_when_idle(allowed_latency=al, cycle_detection_precision=p)
DocCall(al, p) ==
    /\ calls = 0
    /\ Call(al, p)

\* the first request of the bootstrap is answered with the record of 16:12:05
DocBootFirst(ok) ==
    BootFirst(IF ok THEN DocStaleRecord ELSE NoRecord, ok)

DocBootSecond(rec, ok) ==
    BootSecond(IF ok THEN rec ELSE NoRecord, ok)

DocBootRefetch(rec, ok) ==
    BootRefetch(IF ok THEN rec ELSE NoRecord, ok)

DocPoll(ok) ==
    /\ polls < MaxLoopPolls
    /\ LoopPollGiven(IF ok THEN DocLoopRecord(polls + 1) ELSE NoRecord, ok)

NextDoc ==
    \/ \E al \in DocAllowedLatencies, p \in DocPrecisions :
          DocCall(al, p) /\ UNCHANGED clock
    \/ \E ok \in BOOLEAN : GetSwitchState(ok) /\ UNCHANGED clock
    \/ \E ok \in BOOLEAN : DocBootFirst(ok) /\ UNCHANGED clock
    \/ \E rec \in DocBootRecords, ok \in BOOLEAN :
          DocBootSecond(rec, ok) /\ UNCHANGED clock
    \/ BootWait /\ UNCHANGED clock
    \/ \E rec \in DocBootRecords, ok \in BOOLEAN :
          DocBootRefetch(rec, ok) /\ UNCHANGED clock
    \/ BootReturn /\ UNCHANGED clock
    \/ \E ok \in BOOLEAN : FastPath(ok) /\ UNCHANGED clock
    \/ LoopExit /\ UNCHANGED clock
    \/ \E ok \in BOOLEAN : DocPoll(ok) /\ UNCHANGED clock
    \/ \E ok \in BOOLEAN : LoopGateAdjust(ok) /\ UNCHANGED clock

SpecDoc == InitDoc /\ [][NextDoc]_vars

\* the call of the notebook, with no remote call failing:
\* idle threshold 5 W, allowed_latency=1, cycle_detection_precision=3
DocumentedCall ==
    /\ calls = 1
    /\ idle_threshold = 500
    /\ allowed_latency = 100
    /\ precision = 3
    /\ failures = 0

\* C16: in the documented run (idle threshold 5 W, allowed_latency 1,
\* precision 3, bootstrap record (427.36 W, 1.42 s), loop records
\* (427.36 W, 10.82 s), (2.93 W, 1.06 s), (3.07 W, 0.95 s)) no command is
\* issued on the first three records, the off command is issued exactly once,
\* on the fourth, and the run ends there; the three loop polls are made with
\* offsets 0, 0.25, 0.125 and increments 0.25, 0.25, 0.125.
C16_DocumentedRun ==
    DocumentedCall =>
      /\ pc = "fast_path" => power_record = DocBootRecord
      /\ polls <= 3
      /\ (polls < 3 \/ (polls = 3 /\ pc = "loop_gate")) =>
             /\ cmds = 0
             /\ pc # "done"
      /\ (polls = 3 /\ pc # "loop_gate") =>
             /\ cmds = 1
             /\ ~switch_is_on
             /\ ~switchState
             /\ pc \in {"loop_test", "done"}
      /\ (pc = "loop_gate" /\ polls = 1) =>
             /\ power_record = DocLoopRecord(1)
             /\ offset = 0
             /\ increment = Sec \div 4
             /\ base_time = nudge_timestamp(15, 0)
      /\ (pc = "loop_gate" /\ polls = 2) =>
             /\ power_record = DocLoopRecord(2)
             /\ offset = Sec \div 4
             /\ increment = Sec \div 4
             /\ base_time = nudge_timestamp(15, Sec \div 4)
      /\ (pc = "loop_gate" /\ polls = 3) =>
             /\ power_record = DocLoopRecord(3)
             /\ offset = Sec \div 8
             /\ increment = Sec \div 8
             /\ base_time = nudge_timestamp(35, Sec \div 8)

C16_Witness ==
    /\ DocumentedCall
    /\ pc = "done"
    /\ polls = 3
    /\ cmds = 1
    /\ ~switchState
    /\ power_record = DocLoopRecord(3)

\* ------------------------------------------------ anchoring of the cycle
\* C21: at the end of every loop iteration, in all three bands, base_time is
\* the record time of the record fetched in that iteration plus the offset as
\* just updated; it depends on nothing else, the previous base_time included.
C21_BaseTimeReanchored ==
    [][BandUpdate =>
          base_time' = power_record.record_time * Sec + offset']_vars

C21_Witness ==
    /\ pc = "loop_test"
    /\ polls = 2
    /\ prev_time = 1
    /\ power_record.record_time = 2
    /\ power_record.latency = 1082
    /\ offset = Sec \div 2
    /\ base_time = 2 * Sec + (Sec \div 2)

\* C23: when the loop starts, base_time is the record time of the record the
\* bootstrap returned, offset = 0, lower_bound = -1 and increment = 1/4, in
\* every call of turn_off_when_idle, whatever an earlier call left behind.
C23_FreshSynchronizationState ==
    [][(pc = "fast_path" /\ pc' = "loop_test") =>
          /\ base_time' = power_record.record_time * Sec
          /\ offset' = 0
          /\ lower_bound' = -Sec
          /\ 4 * increment' = Sec]_vars

C23_Witness ==
    /\ calls = 2
    /\ pc = "loop_test"
    /\ polls = 0
    /\ switch_is_on
    /\ power_record.record_time = 2
    /\ base_time = 2 * Sec
    /\ offset = 0
    /\ lower_bound = -Sec
    /\ 4 * increment = Sec

\* ------------------------------------------------------------ the scheduler
\* One call of get_next_power_record(base_time), statement by statement, with
\* a clock that advances between the statements. Times are in 1/Sec s.
SchedBaseTimes == {nudge_timestamp(t, o) : t \in {1, 12}, o \in {0, Sec \div 4}}
SchedClocks == {0, 5 * Sec, 14 * Sec + (Sec \div 8)}
Ticks == {Sec \div 2, 3 * Sec}
SchedRecords ==
    {rec \in Records : rec.power = 293 /\ rec.latency \in {95, 1082}}

InitSched ==
    /\ pc = "sched_start"
    /\ switchState = TRUE
    /\ device_time = 1
    /\ idle_threshold = 500
    /\ allowed_latency = 100
    /\ precision = 1
    /\ switch_is_on = TRUE
    /\ power_record = [power |-> 42736, record_time |-> 1, latency |-> 95]
    /\ init_time = 0
    /\ base_time \in SchedBaseTimes
    /\ offset = 0
    /\ lower_bound = LowerBoundSentinel * Sec
    /\ increment = Sec \div IncrementDivisor
    /\ precision_is_low = TRUE
    /\ calls = 1
    /\ fetches = 0
    /\ waits = 0
    /\ polls = 0
    /\ cmds = 0
    /\ failures = 0
    /\ state_at_start = "on"
    /\ prev_time = 0
    /\ changed_at = 0
    /\ fast_off = FALSE
    /\ theta = 0
    /\ now \in SchedClocks
    /\ exec_time = 0
    /\ sleep_time = 0

\* what no statement of get_next_power_record before the request changes
sched_frame ==
    <<switchState, device_time, params, switch_is_on, power_record, init_time,
      sync, calls, fetches, waits, polls, cmds, failures, state_at_start,
      prev_time, changed_at, fast_off>>

InScheduler ==
    pc \in {"sched_start", "sched_test", "sched_read", "sched_sleep",
            "sched_fetch"}

\* the clock advances while the call is between two statements
Tick(d) ==
    /\ InScheduler
    /\ now < MaxClock * Sec
    /\ now' = now + d
    /\ UNCHANGED <<pc, exec_time, sleep_time, sched_frame>>

\* exec_time = base_time
SchedStart ==
    /\ pc = "sched_start"
    /\ exec_time' = base_time
    /\ pc' = "sched_test"
    /\ UNCHANGED <<now, sleep_time, sched_frame>>

\* while exec_time < datetime.datetime.now(): exec_time += timedelta(cycle)
SchedAdvance ==
    /\ pc = "sched_test"
    /\ exec_time < now
    /\ exec_time' = exec_time + cycle * Sec
    /\ UNCHANGED <<pc, now, sleep_time, sched_frame>>

\* the loop test is false
SchedChosen ==
    /\ pc = "sched_test"
    /\ ~(exec_time < now)
    /\ pc' = "sched_read"
    /\ UNCHANGED <<now, exec_time, sleep_time, sched_frame>>

\* sleep_time = (exec_time - datetime.datetime.now()).total_seconds()
SchedRead ==
    /\ pc = "sched_read"
    /\ sleep_time' = exec_time - now
    /\ pc' = "sched_sleep"
    /\ UNCHANGED <<now, exec_time, sched_frame>>

\* time.sleep(sleep_time): raises ValueError for a negative argument, and
\* otherwise suspends for at least sleep_time
SchedSleep(d) ==
    /\ pc = "sched_sleep"
    /\ IF sleep_time < 0
       THEN /\ pc' = "error"
            /\ UNCHANGED now
       ELSE /\ pc' = "sched_fetch"
            /\ now' = now + sleep_time + d
    /\ UNCHANGED <<exec_time, sleep_time, sched_frame>>

\* power_record = self.get_latest_power_record(); return power_record
SchedFetch(rec, ok) ==
    /\ pc = "sched_fetch"
    /\ Fetched(rec, ok)
    /\ pc' = AfterRemoteCall(ok, "sched_done")
    /\ UNCHANGED <<switchState, params, switch_is_on, init_time, sync, calls,
                   waits, polls, cmds, state_at_start, fast_off, clock>>

NextSched ==
    \/ \E d \in Ticks : Tick(d)
    \/ SchedStart
    \/ SchedAdvance
    \/ SchedChosen
    \/ SchedRead
    \/ \E d \in {0} \cup Ticks : SchedSleep(d)
    \/ \E rec \in SchedRecords, ok \in BOOLEAN : SchedFetch(rec, ok)

SpecSched == InitSched /\ [][NextSched]_vars

\* C22: the instant get_next_power_record chooses is base_time + k * cycle for
\* the smallest k >= 0 for which it is not before the current time (k = 0 when
\* base_time is not in the past); every call issues exactly one request, and
\* not before that instant.
C22_Scheduler ==
    [][/\ (pc = "sched_test" /\ pc' = "sched_read") =>
             /\ exec_time >= now
             /\ \E k \in 0..MaxClock :
                   /\ exec_time = base_time + k * cycle * Sec
                   /\ k = 0 \/ exec_time - cycle * Sec < now
       /\ (pc = "sched_sleep" /\ pc' # pc) =>
             /\ pc' = "sched_fetch"
             /\ now' >= exec_time
       /\ (pc = "sched_fetch" /\ pc' # pc) =>
             /\ fetches' = fetches + 1
             /\ now >= exec_time
       /\ pc # "sched_fetch" => fetches' = fetches]_vars

\* C26: the wait the scheduler asks for is never negative, even when the
\* clock advances between the loop test and the read that computes it.
C26_SleepTimeNonNegative ==
    pc = "sched_sleep" => sleep_time >= 0

\* ------------------------------------------------------------ the bootstrap
\* get_reliable_power_record followed by the fast-path check, with as many
\* unchanged record times in a row as MaxBootFetches allows. The call keeps
\* running whenever it can take a step.
BootRecords == {rec \in Records : rec.latency \in {40, 1082}}

InitBoot ==
    /\ pc = "boot_first"
    /\ switchState = TRUE
    /\ device_time = 0
    /\ idle_threshold \in IdleThresholds
    /\ allowed_latency = 100
    /\ precision = 1
    /\ switch_is_on = TRUE
    /\ power_record = NoRecord
    /\ init_time = 0
    /\ base_time = 0
    /\ offset = 0
    /\ lower_bound = 0
    /\ increment = 0
    /\ precision_is_low = FALSE
    /\ calls = 1
    /\ fetches = 0
    /\ waits = 0
    /\ polls = 0
    /\ cmds = 0
    /\ failures = 0
    /\ state_at_start = "on"
    /\ prev_time = 0
    /\ changed_at = 0
    /\ fast_off = FALSE
    /\ theta = 0
    /\ now = 0
    /\ exec_time = 0
    /\ sleep_time = 0

\* while next_time == init_time: time.sleep(interval)
BootWaitAgain ==
    /\ pc = "boot_test"
    /\ BootMustWait(power_record.record_time, init_time)
    /\ fetches < MaxBootFetches
    /\ waits' = waits + 1
    /\ pc' = "boot_fetch"
    /\ UNCHANGED <<switchState, device_time, params, switch_is_on,
                   power_record, init_time, sync, calls, fetches, polls, cmds,
                   failures, state_at_start, prev_time, changed_at, fast_off>>

NextBoot ==
    \/ \E rec \in BootRecords, ok \in BOOLEAN :
          BootFirst(IF ok THEN rec ELSE NoRecord, ok) /\ UNCHANGED clock
    \/ \E rec \in BootRecords, ok \in BOOLEAN :
          BootSecond(IF ok THEN rec ELSE NoRecord, ok) /\ UNCHANGED clock
    \/ BootWaitAgain /\ UNCHANGED clock
    \/ \E rec \in BootRecords, ok \in BOOLEAN :
          BootRefetch(IF ok THEN rec ELSE NoRecord, ok) /\ UNCHANGED clock
    \/ BootReturn /\ UNCHANGED clock
    \/ \E ok \in BOOLEAN : FastPath(ok) /\ UNCHANGED clock

SpecBoot == InitBoot /\ [][NextBoot]_vars /\ WF_vars(NextBoot)

InBootstrap == pc \in {"boot_first", "boot_second", "boot_test", "boot_fetch"}

\* C24: get_reliable_power_record has no timeout and no retry counter: as
\* long as the record time of the latest request equals that of the first, it
\* waits and requests again, however often it has done so, does not return
\* and issues no command; once a request after the first has returned another
\* record time, it eventually returns, with that record.
C24_BootstrapWaitsForChange ==
    /\ [](InBootstrap => cmds = 0)
    /\ [][(pc = "boot_test" /\ pc' # pc) =>
             IF power_record.record_time = init_time
             THEN /\ pc' = "boot_fetch"
                  /\ waits' = waits + 1
             ELSE /\ pc' = "fast_path"
                  /\ power_record' = power_record]_vars
    /\ (pc = "boot_test" /\ power_record.record_time # init_time)
           ~> (pc = "fast_path")

C24_Witness ==
    /\ pc = "fast_path"
    /\ fetches = 5
    /\ waits = 3
    /\ changed_at = 5
    /\ cmds = 0
    /\ power_record.record_time = 2

\* --------------------------------------- the loop without anomalous records
\* The detection loop with cycle_detection_precision >= 1 in which every
\* record is in the too-early or in the acceptable band.
BandPrecisions == {1, 2, 3}
BandRecords ==
    {rec \in Records : TooEarly(rec.latency) \/ Acceptable(rec.latency)}

InitBands ==
    /\ pc = "fast_path"
    /\ switchState = TRUE
    /\ device_time = 1
    /\ idle_threshold = 500
    /\ allowed_latency = 100
    /\ precision \in BandPrecisions
    /\ switch_is_on = TRUE
    /\ power_record = [power |-> 42736, record_time |-> 1, latency |-> 95]
    /\ init_time = 0
    /\ base_time = 0
    /\ offset = 0
    /\ lower_bound = 0
    /\ increment = 0
    /\ precision_is_low = FALSE
    /\ calls = 1
    /\ fetches = 2
    /\ waits = 0
    /\ polls = 0
    /\ cmds = 0
    /\ failures = 0
    /\ state_at_start = "on"
    /\ prev_time = 0
    /\ changed_at = 2
    /\ fast_off = FALSE
    /\ theta = 0
    /\ now = 0
    /\ exec_time = 0
    /\ sleep_time = 0

BandPoll(rec) ==
    /\ polls < MaxBandPolls
    /\ rec.record_time = device_time
    /\ LoopPollGiven(rec, TRUE)

NextBands ==
    \/ FastPath(TRUE) /\ UNCHANGED clock
    \/ \E rec \in BandRecords : BandPoll(rec) /\ UNCHANGED clock
    \/ \E ok \in BOOLEAN : LoopGateAdjust(ok) /\ UNCHANGED clock
    \/ LoopExit /\ UNCHANGED clock

SpecBands == InitBands /\ [][NextBands]_vars

\* C25: in a run with precision >= 1 and no anomalous-band record,
\* offset - lower_bound is in every state of the loop a positive integer
\* multiple of increment, so that offset stays above lower_bound.
C25_OffsetOnIncrementGrid ==
    InLoop =>
      /\ increment > 0
      /\ offset > lower_bound
      /\ \E k \in 1..IncrementDivisor :
            offset - lower_bound = k * increment

C25_Witness ==
    /\ pc = "loop_test"
    /\ polls = 5
    /\ lower_bound = LowerBoundSentinel * Sec
    /\ increment = Sec \div 16
    /\ offset - lower_bound = increment
    /\ power_record.latency = 40
====
